---- MODULE Spec2Model ----
(***************************************************************************)
(* Model of qr_builder: the validators, the position calculator, the       *)
(* embedding and logo pipelines of core.py, the HTTP handlers of api.py    *)
(* and the batch-embed command of cli.py.                                  *)
(*                                                                         *)
(* A behaviour is one invocation: Init draws the operation and its         *)
(* arguments, the operation's action runs it (batch handlers take one      *)
(* step per item), and the state then holds what the invocation returned,  *)
(* raised, rendered, wrote and left behind.                                *)
(***************************************************************************)
EXTENDS Integers, Sequences, FiniteSets, TLC

VARIABLES pc, req, exc, ret, rendered, placed, written, tmp, status, body, zf, idx

vars == <<pc, req, exc, ret, rendered, placed, written, tmp, status, body, zf, idx>>

(***************************************************************************)
(* Program constants (core.py)                                             *)
(***************************************************************************)
MAX_DATA_LENGTH == 4296
MAX_QR_SIZE == 4000
MIN_QR_SIZE == 21

(***************************************************************************)
(* Strings are sequences of one-character strings.                         *)
(***************************************************************************)
Uppers == <<"A","B","C","D","E","F","G","H","I","J","K","L","M",
            "N","O","P","Q","R","S","T","U","V","W","X","Y","Z">>
Lowers == <<"a","b","c","d","e","f","g","h","i","j","k","l","m",
            "n","o","p","q","r","s","t","u","v","w","x","y","z">>

\* str.lower() on one character
LowerChar(c) ==
    IF \E i \in 1..Len(Uppers) : Uppers[i] = c
    THEN Lowers[CHOOSE i \in 1..Len(Uppers) : Uppers[i] = c]
    ELSE c

\* lower() leaving the string as it is
Lower_identity(s) == s

\* str.lower()
Lower(s) == [i \in 1..Len(s) |-> LowerChar(s[i])]

\* str.upper() on one character (used to build the casing variants)
UpperChar(c) ==
    IF \E i \in 1..Len(Lowers) : Lowers[i] = c
    THEN Uppers[CHOOSE i \in 1..Len(Lowers) : Lowers[i] = c]
    ELSE c

S_center == <<"c","e","n","t","e","r">>
S_top_left == <<"t","o","p","-","l","e","f","t">>
S_top_right == <<"t","o","p","-","r","i","g","h","t">>
S_bottom_left == <<"b","o","t","t","o","m","-","l","e","f","t">>
S_bottom_right == <<"b","o","t","t","o","m","-","r","i","g","h","t">>

\* the output path of a single call
S_out == <<"o","u","t">>

VALID_POSITIONS == {S_center, S_top_left, S_top_right, S_bottom_left, S_bottom_right}

(***************************************************************************)
(* Data strings are run-length encoded: a sequence of runs <<c, n>>, n > 0 *)
(* copies of the character c.                                              *)
(***************************************************************************)
Whitespace == {" ", "\t", "\n"}

RECURSIVE StrLen(_)
\* len(data)
StrLen(d) == IF d = <<>> THEN 0 ELSE d[1][2] + StrLen(Tail(d))

RECURSIVE LStrip(_)
LStrip(d) ==
    IF d = <<>> THEN <<>>
    ELSE IF d[1][1] \in Whitespace THEN LStrip(Tail(d)) ELSE d

RECURSIVE RStrip(_)
RStrip(d) ==
    IF d = <<>> THEN <<>>
    ELSE IF d[Len(d)][1] \in Whitespace THEN RStrip(SubSeq(d, 1, Len(d) - 1)) ELSE d

\* str.strip()
Strip(d) == RStrip(LStrip(d))

(***************************************************************************)
(* Validators.  An operator that can raise returns the exception's name in *)
(* the field exc ("none" when it returns normally).                        *)
(***************************************************************************)
\* validate_data rejecting the maximum length itself
validate_data_exclusive(data) ==
    IF StrLen(data) = 0 \/ StrLen(Strip(data)) = 0 THEN "ValueError"
    ELSE IF StrLen(data) >= MAX_DATA_LENGTH THEN "ValueError"
    ELSE "none"

validate_data(data) ==
    IF StrLen(data) = 0 \/ StrLen(Strip(data)) = 0 THEN "ValueError"
    ELSE IF StrLen(data) > MAX_DATA_LENGTH THEN "ValueError"
    ELSE "none"

\* validate_size with exclusive bounds
validate_size_exclusive(size) ==
    IF ~(MIN_QR_SIZE < size /\ size < MAX_QR_SIZE) THEN "ValueError" ELSE "none"

validate_size(size) ==
    IF ~(MIN_QR_SIZE <= size /\ size <= MAX_QR_SIZE) THEN "ValueError" ELSE "none"

(***************************************************************************)
(* Position calculator.  // 2 is floor division, as \div is.               *)
(***************************************************************************)
Max0(n) == IF n < 0 THEN 0 ELSE n

\* calculate_position clamping the coordinate to the canvas
calculate_position_clamped(bg_w, bg_h, qr_size, position0, margin) ==
    LET position == Lower(position0) IN
    IF position = S_center
    THEN [exc |-> "none", x |-> Max0((bg_w - qr_size) \div 2), y |-> Max0((bg_h - qr_size) \div 2)]
    ELSE IF position = S_bottom_right
    THEN [exc |-> "none", x |-> Max0(bg_w - qr_size - margin), y |-> Max0(bg_h - qr_size - margin)]
    ELSE IF position = S_bottom_left
    THEN [exc |-> "none", x |-> Max0(margin), y |-> Max0(bg_h - qr_size - margin)]
    ELSE IF position = S_top_right
    THEN [exc |-> "none", x |-> Max0(bg_w - qr_size - margin), y |-> Max0(margin)]
    ELSE IF position = S_top_left
    THEN [exc |-> "none", x |-> Max0(margin), y |-> Max0(margin)]
    ELSE [exc |-> "ValueError", x |-> 0, y |-> 0]

calculate_position(bg_w, bg_h, qr_size, position0, margin) ==
    LET position == Lower(position0) IN
    IF position = S_center
    THEN [exc |-> "none", x |-> (bg_w - qr_size) \div 2, y |-> (bg_h - qr_size) \div 2]
    ELSE IF position = S_bottom_right
    THEN [exc |-> "none", x |-> bg_w - qr_size - margin, y |-> bg_h - qr_size - margin]
    ELSE IF position = S_bottom_left
    THEN [exc |-> "none", x |-> margin, y |-> bg_h - qr_size - margin]
    ELSE IF position = S_top_right
    THEN [exc |-> "none", x |-> bg_w - qr_size - margin, y |-> margin]
    ELSE IF position = S_top_left
    THEN [exc |-> "none", x |-> margin, y |-> margin]
    ELSE [exc |-> "ValueError", x |-> 0, y |-> 0]

(***************************************************************************)
(* Floats.  A scale is a rational [num, den], den > 0.  The model draws    *)
(* scales whose double is exactly num/den (den a power of two) or whose    *)
(* comparisons and products round to that of num/den (see the input sets). *)
(***************************************************************************)
Rat(n, d) == [num |-> n, den |-> d]

\* a <= b
Leq(a, b) == a.num * b.den <= b.num * a.den

\* a < b
Lt(a, b) == a.num * b.den < b.num * a.den

\* int(n * s): truncation toward zero
IntMul(n, s) ==
    IF n * s.num >= 0 THEN (n * s.num) \div s.den ELSE -((-(n * s.num)) \div s.den)

(***************************************************************************)
(* QR renderer.  codec is the outcome of the external symbol encoder       *)
(* ("ok", or "fail" when it raises, e.g. on data beyond the capacity of    *)
(* the largest symbol); rendered counts the encoder's invocations.         *)
(***************************************************************************)
\* the renderer without the check of the size
generate_qr_any_size(data, qr_size, codec) ==
    IF validate_data(data) # "none" THEN [exc |-> validate_data(data), rendered |-> 0]
    ELSE IF codec = "fail" THEN [exc |-> "Exception", rendered |-> 1]
    ELSE [exc |-> "none", rendered |-> 1]

generate_qr(data, qr_size, codec) ==
    IF validate_data(data) # "none" THEN [exc |-> validate_data(data), rendered |-> 0]
    ELSE IF validate_size(qr_size) # "none" THEN [exc |-> validate_size(qr_size), rendered |-> 0]
    ELSE IF codec = "fail" THEN [exc |-> "Exception", rendered |-> 1]
    ELSE [exc |-> "none", rendered |-> 1]

\* what a pipeline of core.py leaves: the exception raised, the number of
\* renders, the pastes and drawings made in order, the files saved
Outcome(e, n, p, w) == [exc |-> e, rendered |-> n, placed |-> p, written |-> w]

Paste(kind, size, x, y) == [kind |-> kind, size |-> size, x |-> x, y |-> y]

(***************************************************************************)
(* embed_qr_in_image.  r.exists: the background path exists; r.decodable:  *)
(* Image.open accepts the file; r.bg_w, r.bg_h: the size of the image.     *)
(***************************************************************************)
\* embed_qr_in_image deriving the QR size from the height
embed_qr_in_image_by_height(r) ==
    IF ~r.exists THEN Outcome("FileNotFoundError", 0, <<>>, {})
    ELSE IF ~r.decodable THEN Outcome("Exception", 0, <<>>, {})
    ELSE IF ~(Lt(Rat(0, 1), r.scale) /\ Leq(r.scale, Rat(1, 1)))
    THEN Outcome("ValueError", 0, <<>>, {})
    ELSE
      LET qr_size == IntMul(r.bg_h, r.scale)
          qr == generate_qr(r.data, qr_size, r.codec)
          xy == calculate_position(r.bg_w, r.bg_h, qr_size, r.position, r.margin)
      IN IF qr.exc # "none" THEN Outcome(qr.exc, qr.rendered, <<>>, {})
         ELSE IF xy.exc # "none" THEN Outcome(xy.exc, qr.rendered, <<>>, {})
         ELSE Outcome("none", qr.rendered, <<Paste("qr", qr_size, xy.x, xy.y)>>, {r.output})

embed_qr_in_image(r) ==
    IF ~r.exists THEN Outcome("FileNotFoundError", 0, <<>>, {})
    ELSE IF ~r.decodable THEN Outcome("Exception", 0, <<>>, {})
    ELSE IF ~(Lt(Rat(0, 1), r.scale) /\ Leq(r.scale, Rat(1, 1)))
    THEN Outcome("ValueError", 0, <<>>, {})
    ELSE
      LET qr_size == IntMul(r.bg_w, r.scale)
          qr == generate_qr(r.data, qr_size, r.codec)
          xy == calculate_position(r.bg_w, r.bg_h, qr_size, r.position, r.margin)
      IN IF qr.exc # "none" THEN Outcome(qr.exc, qr.rendered, <<>>, {})
         ELSE IF xy.exc # "none" THEN Outcome(xy.exc, qr.rendered, <<>>, {})
         ELSE Outcome("none", qr.rendered, <<Paste("qr", qr_size, xy.x, xy.y)>>, {r.output})

(***************************************************************************)
(* generate_qr_with_logo.  r.exists, r.decodable describe the logo file.   *)
(***************************************************************************)
box_padding == 10

\* generate_qr_with_logo checking logo_scale after rendering
generate_qr_with_logo_late_check(r) ==
    IF ~r.exists THEN Outcome("FileNotFoundError", 0, <<>>, {})
    ELSE
      LET qr == generate_qr(r.data, r.size, r.codec) IN
      IF qr.exc # "none" THEN Outcome(qr.exc, qr.rendered, <<>>, {})
      ELSE IF ~(Leq(Rat(1, 10), r.logo_scale) /\ Leq(r.logo_scale, Rat(4, 10)))
      THEN Outcome("ValueError", qr.rendered, <<>>, {})
      ELSE IF ~r.decodable THEN Outcome("Exception", qr.rendered, <<>>, {})
      ELSE
        LET logo_size == IntMul(r.size, r.logo_scale)
            pos_x == (r.size - logo_size) \div 2
            pos_y == (r.size - logo_size) \div 2
            box_size == logo_size + box_padding * 2
            box_pos == <<(r.size - box_size) \div 2, (r.size - box_size) \div 2>>
        IN Outcome("none", qr.rendered,
                   <<Paste("box", box_size, box_pos[1], box_pos[2]),
                     Paste("logo", logo_size, pos_x, pos_y)>>,
                   {r.output})

\* generate_qr_with_logo padding the rectangle on one side only
generate_qr_with_logo_single_padding(r) ==
    IF ~r.exists THEN Outcome("FileNotFoundError", 0, <<>>, {})
    ELSE IF ~(Leq(Rat(1, 10), r.logo_scale) /\ Leq(r.logo_scale, Rat(4, 10)))
    THEN Outcome("ValueError", 0, <<>>, {})
    ELSE
      LET qr == generate_qr(r.data, r.size, r.codec) IN
      IF qr.exc # "none" THEN Outcome(qr.exc, qr.rendered, <<>>, {})
      ELSE IF ~r.decodable THEN Outcome("Exception", qr.rendered, <<>>, {})
      ELSE
        LET logo_size == IntMul(r.size, r.logo_scale)
            pos_x == (r.size - logo_size) \div 2
            pos_y == (r.size - logo_size) \div 2
            box_size == logo_size + box_padding
            box_pos == <<(r.size - box_size) \div 2, (r.size - box_size) \div 2>>
        IN Outcome("none", qr.rendered,
                   <<Paste("box", box_size, box_pos[1], box_pos[2]),
                     Paste("logo", logo_size, pos_x, pos_y)>>,
                   {r.output})

generate_qr_with_logo(r) ==
    IF ~r.exists THEN Outcome("FileNotFoundError", 0, <<>>, {})
    ELSE IF ~(Leq(Rat(1, 10), r.logo_scale) /\ Leq(r.logo_scale, Rat(4, 10)))
    THEN Outcome("ValueError", 0, <<>>, {})
    ELSE
      LET qr == generate_qr(r.data, r.size, r.codec) IN
      IF qr.exc # "none" THEN Outcome(qr.exc, qr.rendered, <<>>, {})
      ELSE IF ~r.decodable THEN Outcome("Exception", qr.rendered, <<>>, {})
      ELSE
        LET logo_size == IntMul(r.size, r.logo_scale)
            pos_x == (r.size - logo_size) \div 2
            pos_y == (r.size - logo_size) \div 2
            box_size == logo_size + box_padding * 2
            box_pos == <<(r.size - box_size) \div 2, (r.size - box_size) \div 2>>
        IN Outcome("none", qr.rendered,
                   <<Paste("box", box_size, box_pos[1], box_pos[2]),
                     Paste("logo", logo_size, pos_x, pos_y)>>,
                   {r.output})

(***************************************************************************)
(* generate_artistic_qr.  r.ext is the outcome of the external artistic    *)
(* codec amzqr.run: "ok", "ValueError" or "Exception".                     *)
(***************************************************************************)
\* generate_artistic_qr running the codec before looking for the image
generate_artistic_qr_codec_first(r) ==
    IF r.ext # "ok" THEN Outcome(r.ext, 0, <<>>, {})
    ELSE IF ~r.exists THEN Outcome("FileNotFoundError", 0, <<>>, {})
    ELSE Outcome("none", 0, <<>>, {r.output})

generate_artistic_qr(r) ==
    IF ~r.exists THEN Outcome("FileNotFoundError", 0, <<>>, {})
    ELSE IF r.ext # "ok" THEN Outcome(r.ext, 0, <<>>, {})
    ELSE Outcome("none", 0, <<>>, {r.output})

(***************************************************************************)
(* Centre-text variant and halftone variant: core functions the handlers   *)
(* import.  The text variant validates its scale like the logo variant and *)
(* renders through generate_qr; the halftone variant is a pass-through to  *)
(* an external codec whose outcome is r.ext.                               *)
(***************************************************************************)
generate_qr_with_text(r) ==
    IF ~(Leq(Rat(1, 10), r.logo_scale) /\ Leq(r.logo_scale, Rat(4, 10)))
    THEN Outcome("ValueError", 0, <<>>, {})
    ELSE
      LET qr == generate_qr(r.data, r.size, r.codec) IN
      IF qr.exc # "none" THEN Outcome(qr.exc, qr.rendered, <<>>, {})
      ELSE Outcome("none", qr.rendered, <<>>, {r.output})

generate_qart(r) ==
    IF ~r.exists THEN Outcome("FileNotFoundError", 0, <<>>, {})
    ELSE IF r.ext # "ok" THEN Outcome(r.ext, 0, <<>>, {})
    ELSE Outcome("none", 0, <<>>, {r.output})

(***************************************************************************)
(* HTTP handlers (api.py).  A response is the status code, the kind of     *)
(* body, the exception the handler caught ("none" on success), and what    *)
(* the request rendered, pasted and left in the temporary directory.       *)
(* Temporary files are <<i, "tmp">> (the staged upload of item i) and      *)
(* <<i, "out">> (the output file of item i); i = 0 outside batches.        *)
(***************************************************************************)
Resp(code, kind, e, n, p, t) ==
    [status |-> code, body |-> kind, exc |-> e, rendered |-> n, placed |-> p, tmp |-> t]

Staged(i) == {<<i, "tmp">>, <<i, "out">>}

\* POST /qr
create_qr(r) ==
    LET g == generate_qr(r.data, r.size, r.codec) IN
    IF g.exc # "none" THEN Resp(400, "none", g.exc, g.rendered, <<>>, {})
    ELSE Resp(200, "png", "none", g.rendered, <<>>, {})

\* POST /qr/logo
create_qr_with_logo(r) ==
    LET files == Staged(0)
        g == generate_qr_with_logo([r EXCEPT !.exists = TRUE, !.output = S_out])
    IN IF g.exc = "none" THEN Resp(200, "png", "none", g.rendered, g.placed, files \ Staged(0))
       ELSE IF g.exc = "ValueError" THEN Resp(400, "none", g.exc, g.rendered, g.placed, files)
       ELSE Resp(500, "none", g.exc, g.rendered, g.placed, files)

\* POST /qr/text
create_qr_with_text_endpoint(r) ==
    LET files == {<<0, "out">>}
        g == generate_qr_with_text([r EXCEPT !.output = S_out])
    IN IF g.exc = "none" THEN Resp(200, "png", "none", g.rendered, g.placed, files \ {<<0, "out">>})
       ELSE IF g.exc = "ValueError" THEN Resp(400, "none", g.exc, g.rendered, g.placed, files)
       ELSE Resp(500, "none", g.exc, g.rendered, g.placed, files)

\* POST /qr/artistic
create_artistic_qr(r) ==
    LET files == Staged(0)
        g == generate_artistic_qr([r EXCEPT !.exists = TRUE, !.output = S_out])
    IN IF g.exc = "none" THEN Resp(200, "png", "none", g.rendered, g.placed, files \ Staged(0))
       ELSE Resp(500, "none", g.exc, g.rendered, g.placed, files)

\* POST /qr/qart
create_qart(r) ==
    LET files == Staged(0)
        g == generate_qart([r EXCEPT !.exists = TRUE, !.output = S_out])
    IN IF g.exc = "none" THEN Resp(200, "png", "none", g.rendered, g.placed, files \ Staged(0))
       ELSE Resp(500, "none", g.exc, g.rendered, g.placed, files)

\* the body of the try block of /embed: open, check, render, place, paste
embed_qr_try(r) ==
    IF ~r.decodable THEN Outcome("Exception", 0, <<>>, {})
    ELSE IF ~(Lt(Rat(0, 1), r.scale) /\ Leq(r.scale, Rat(1, 1)))
    THEN Outcome("ValueError", 0, <<>>, {})
    ELSE
      LET qr_size == IntMul(r.bg_w, r.scale)
          qr_img == generate_qr(r.data, qr_size, r.codec)
          xy == calculate_position(r.bg_w, r.bg_h, qr_size, r.position, r.margin)
      IN IF qr_img.exc # "none" THEN Outcome(qr_img.exc, qr_img.rendered, <<>>, {})
         ELSE IF xy.exc # "none" THEN Outcome(xy.exc, qr_img.rendered, <<>>, {})
         ELSE Outcome("none", qr_img.rendered, <<Paste("qr", qr_size, xy.x, xy.y)>>, {})

\* POST /embed
embed_qr(r) ==
    LET g == embed_qr_try(r) IN
    IF g.exc = "none" THEN Resp(200, "png", "none", g.rendered, g.placed, {})
    ELSE IF g.exc = "ValueError" THEN Resp(400, "none", g.exc, g.rendered, g.placed, {})
    ELSE Resp(500, "none", g.exc, g.rendered, g.placed, {})

(***************************************************************************)
(* Output names.  File names are sequences of characters; <<>> is an       *)
(* upload without a file name.                                             *)
(***************************************************************************)
S_image_png == <<"i","m","a","g","e",".","p","n","g">>
S_dot_png == <<".","p","n","g">>
S_qr == <<"_","q","r">>
S_artistic == <<"_","a","r","t","i","s","t","i","c">>

\* the index of the last "." of s, 0 when there is none
LastDot(s) ==
    IF \E i \in 1..Len(s) : s[i] = "."
    THEN CHOOSE i \in 1..Len(s) : s[i] = "." /\ \A j \in (i + 1)..Len(s) : s[j] # "."
    ELSE 0

\* name.rsplit(".", 1)[0]
RsplitBase(s) == SubSeq(s, 1, LastDot(s) - 1)

\* the archive entry name cut at the first "." instead of the last
ArchiveName_first_dot(filename, suffix) ==
    LET name == IF filename = <<>> THEN S_image_png ELSE filename
        dots == { i \in 1..Len(name) : name[i] = "." }
        first == CHOOSE i \in dots : \A j \in dots : i <= j
    IN  IF dots # {}
        THEN SubSeq(name, 1, first - 1) \o suffix \o S_dot_png
        ELSE name \o suffix \o S_dot_png

\* the archive entry name of an upload: suffix is "_qr" or "_artistic"
ArchiveName(filename, suffix) ==
    LET name == IF filename = <<>> THEN S_image_png ELSE filename IN
    IF LastDot(name) # 0
    THEN RsplitBase(name) \o suffix \o S_dot_png
    ELSE name \o suffix \o S_dot_png

\* os.path.splitext of a base name: <<stem, ext>>; a leading run of dots
\* does not start an extension
Splitext(s) ==
    LET dotIndex == LastDot(s) IN
    IF dotIndex > 0 /\ \E j \in 1..(dotIndex - 1) : s[j] # "."
    THEN <<SubSeq(s, 1, dotIndex - 1), SubSeq(s, dotIndex, Len(s))>>
    ELSE <<s, <<>>>>

\* the CLI output name built like the archive entry name
CliOutName_png(name) == Splitext(name)[1] \o S_qr \o S_dot_png

\* the output file name of the CLI batch-embed command
CliOutName(name) ==
    LET stem == Splitext(name)[1]
        ext == Splitext(name)[2]
    IN stem \o S_qr \o (IF ext = <<>> THEN S_dot_png ELSE ext)

\* lines 450-471 of /batch/embed for one upload
batch_embed_item(item, r) ==
    IF ~item.decodable THEN Outcome("Exception", 0, <<>>, {})
    ELSE IF ~(Lt(Rat(0, 1), r.scale) /\ Leq(r.scale, Rat(1, 1)))
    THEN Outcome("ValueError", 0, <<>>, {})
    ELSE
      LET qr_size == IntMul(item.bg_w, r.scale)
          qr_img == generate_qr(r.data, qr_size, r.codec)
          xy == calculate_position(item.bg_w, item.bg_h, qr_size, r.position, r.margin)
      IN IF qr_img.exc # "none" THEN Outcome(qr_img.exc, qr_img.rendered, <<>>, {})
         ELSE IF xy.exc # "none" THEN Outcome(xy.exc, qr_img.rendered, <<>>, {})
         ELSE Outcome("none", qr_img.rendered, <<Paste("qr", qr_size, xy.x, xy.y)>>, {})

\* an entry of the archive: its name and the index of the upload it was made from
Entry(name, i) == [name |-> name, src |-> i]

(***************************************************************************)
(* Inputs                                                                  *)
(***************************************************************************)
MaskBits == 2
MaxRuns == 2

\* bit i (from 0) of k
Bit(k, i) == (k \div (2 ^ i)) % 2

\* the casing variant of s that upper-cases character i when bit
\* ((i - 1) % MaskBits) of k is set; k = 0 leaves s as it is
Casing(s, k) ==
    [i \in 1..Len(s) |-> IF Bit(k, (i - 1) % MaskBits) = 1 THEN UpperChar(s[i]) ELSE s[i]]

Masks == 0..(2 ^ MaskBits - 1)

\* lower-case strings that are not anchor names
InvalidBases ==
    { <<>>,
      <<"c","e","n","t","r","e">>,
      <<"m","i","d","d","l","e">>,
      <<"t","o","p">>,
      <<"t","o","p","_","l","e","f","t">>,
      <<"t","o","p","l","e","f","t">>,
      <<" ","c","e","n","t","e","r">>,
      <<"c","e","n","t","e","r"," ">>,
      <<"l","e","f","t","-","t","o","p">>,
      <<"b","o","t","t","o","m","-","r","i","g","h","t","s">> }

AnchorBases == VALID_POSITIONS \cup InvalidBases

Anchors == { Casing(b, k) : b \in AnchorBases, k \in Masks }

PosWidths == {0, 51, 400}
PosHeights == {0, 30, 300}
PosQrSizes == {21, 100, 401}
PosMargins == {-5, 0, 10}

DataChars == {"a", " ", "\t"}
RunLens == {1, 2, MAX_DATA_LENGTH - 2, MAX_DATA_LENGTH - 1, MAX_DATA_LENGTH, MAX_DATA_LENGTH + 1}

\* run-length strings of at most MaxRuns runs, adjacent runs of different characters
Datas ==
    UNION { { d \in [1..n -> DataChars \X RunLens] :
                \A i \in 1..(n - 1) : d[i][1] # d[i + 1][1] } : n \in 0..MaxRuns }

Sizes == {-1, 0, 500} \cup ((MIN_QR_SIZE - 2)..(MIN_QR_SIZE + 2))
            \cup ((MAX_QR_SIZE - 2)..(MAX_QR_SIZE + 2))

ScaleBits == 2
MaxBatch == 2

\* scales n / 2^ScaleBits: doubles that are exactly that value, and whose product
\* with a width below 2^31 is exact
Scales == { Rat(n, 2 ^ ScaleBits) : n \in -1..(2 ^ ScaleBits + 1) }

\* logo scales in thousandths; with LogoSizes, int(size * scale) on doubles
\* equals the truncation of the exact product, and the comparisons with 0.1
\* and 0.4 are those of the decimal values
LogoScales == { Rat(n, 1000) : n \in {50, 99, 100, 250, 400, 401, 410} }
LogoSizes == {20, 21, 33, 34, 500, 4000, 4001}

BgWidths == {80, 84, 400, 4400}
BgHeights == {30, 300}
Margins == {0, 10}

D_url == << <<"a", 9>> >>
D_blank == << <<" ", 2>> >>
D_long == << <<"a", MAX_DATA_LENGTH + 1>> >>
\* within the length limit, beyond the capacity of the largest symbol
D_big == << <<"a", 3000>> >>
DataSamples == {D_url, D_blank, D_long}

S_Top_right == <<"T","o","p","-","r","i","g","h","t">>
S_middle == <<"m","i","d","d","l","e">>
EmbedPositions == VALID_POSITIONS \cup {S_Top_right, S_middle}

N_a_png == <<"a",".","p","n","g">>
N_b_jpg == <<"b",".","j","p","g">>
N_c == <<"c">>
N_d_png == <<"d",".","p","n","g">>
N_a_jpg == <<"a",".","j","p","g">>

\* an upload or an input file: its name, the size of its image, whether
\* Image.open accepts it, and the outcome of the artistic codec on it
Item(n, w, h, dec, e) == [name |-> n, bg_w |-> w, bg_h |-> h, decodable |-> dec, ext |-> e]

BatchItems ==
    { Item(N_a_png, 400, 300, TRUE, "ok"),
      Item(N_b_jpg, 84, 30, TRUE, "ok"),
      Item(N_c, 80, 30, TRUE, "ok"),
      Item(N_d_png, 0, 0, FALSE, "Exception"),
      Item(N_a_jpg, 84, 30, TRUE, "ok"),
      Item(<<>>, 400, 300, TRUE, "ValueError") }

ItemSeqs(lo) == UNION { [1..n -> BatchItems] : n \in lo..MaxBatch }

NoReq ==
    [op |-> "none", bg_w |-> 0, bg_h |-> 0, qr_size |-> 0, position |-> <<>>,
     margin |-> 0, data |-> <<>>, size |-> 0, scale |-> Rat(0, 1),
     logo_scale |-> Rat(0, 1), exists |-> TRUE, decodable |-> TRUE,
     codec |-> "ok", ext |-> "ok", output |-> S_out, items |-> <<>>, name |-> <<>>]

InitOut ==
    /\ pc = "call"
    /\ exc = "none"
    /\ ret = <<>>
    /\ rendered = 0
    /\ placed = <<>>
    /\ written = {}
    /\ tmp = {}
    /\ status = 0
    /\ body = "none"
    /\ zf = <<>>
    /\ idx = 0

(***************************************************************************)
(* The validators and the position calculator called on their own          *)
(***************************************************************************)
InitPure ==
    /\ InitOut
    /\ \/ \E w \in PosWidths, h \in PosHeights, q \in PosQrSizes,
             a \in Anchors, m \in PosMargins :
             req = [NoReq EXCEPT !.op = "calculate_position", !.bg_w = w, !.bg_h = h,
                                 !.qr_size = q, !.position = a, !.margin = m]
       \/ \E d \in Datas : req = [NoReq EXCEPT !.op = "validate_data", !.data = d]
       \/ \E s \in Sizes : req = [NoReq EXCEPT !.op = "validate_size", !.size = s]

CalculatePosition ==
    /\ pc = "call"
    /\ req.op = "calculate_position"
    /\ LET r == calculate_position(req.bg_w, req.bg_h, req.qr_size, req.position, req.margin)
       IN /\ exc' = r.exc
          /\ ret' = IF r.exc = "none" THEN <<r.x, r.y>> ELSE <<>>
    /\ pc' = "done"
    /\ UNCHANGED <<req, rendered, placed, written, tmp, status, body, zf, idx>>

ValidateData ==
    /\ pc = "call"
    /\ req.op = "validate_data"
    /\ exc' = validate_data(req.data)
    /\ pc' = "done"
    /\ UNCHANGED <<req, ret, rendered, placed, written, tmp, status, body, zf, idx>>

ValidateSize ==
    /\ pc = "call"
    /\ req.op = "validate_size"
    /\ exc' = validate_size(req.size)
    /\ pc' = "done"
    /\ UNCHANGED <<req, ret, rendered, placed, written, tmp, status, body, zf, idx>>

NextPure == CalculatePosition \/ ValidateData \/ ValidateSize

SpecPure == InitPure /\ [][NextPure]_vars

(***************************************************************************)
(* The output names of the two HTTP batch handlers and of the CLI batch    *)
(* command, computed for one source name                                   *)
(***************************************************************************)
MaxNameLen == 4

NameChars == {"a", "b", "."}

N_photo_jpg == <<"p","h","o","t","o",".","j","p","g">>
N_photo == <<"p","h","o","t","o">>
N_a_b_png == <<"a",".","b",".","p","n","g">>
N_dot_png == <<".","p","n","g">>
N_a_PNG == <<"a",".","P","N","G">>

Names ==
    UNION { [1..n -> NameChars] : n \in 0..MaxNameLen }
        \cup {N_photo_jpg, N_photo, N_a_png, N_b_jpg, N_a_jpg, N_a_b_png, N_dot_png, N_a_PNG}

InitNames ==
    /\ InitOut
    /\ \E n \in Names, o \in {"/batch/embed name", "/batch/artistic name", "batch-embed name"} :
          \* glob matches files, and a file has a name
          /\ o = "batch-embed name" => n # <<>>
          /\ req = [NoReq EXCEPT !.op = o, !.name = n]

\* api.py 473-478
BatchEmbedName ==
    /\ pc = "call"
    /\ req.op = "/batch/embed name"
    /\ ret' = ArchiveName(req.name, S_qr)
    /\ pc' = "done"
    /\ UNCHANGED <<req, exc, rendered, placed, written, tmp, status, body, zf, idx>>

\* api.py 542-547
BatchArtisticName ==
    /\ pc = "call"
    /\ req.op = "/batch/artistic name"
    /\ ret' = ArchiveName(req.name, S_artistic)
    /\ pc' = "done"
    /\ UNCHANGED <<req, exc, rendered, placed, written, tmp, status, body, zf, idx>>

\* cli.py 175-177
CliBatchEmbedName ==
    /\ pc = "call"
    /\ req.op = "batch-embed name"
    /\ ret' = CliOutName(req.name)
    /\ pc' = "done"
    /\ UNCHANGED <<req, exc, rendered, placed, written, tmp, status, body, zf, idx>>

NextNames == BatchEmbedName \/ BatchArtisticName \/ CliBatchEmbedName

SpecNames == InitNames /\ [][NextNames]_vars

(***************************************************************************)
(* The pipelines of core.py, the HTTP handlers and the CLI batch command   *)
(***************************************************************************)
Init ==
    /\ InitOut
    /\ \/ \E w \in BgWidths, h \in BgHeights, sc \in Scales, a \in EmbedPositions,
             m \in Margins, d \in DataSamples, e \in BOOLEAN, dec \in BOOLEAN,
             c \in {"ok", "fail"}, o \in {"embed_qr_in_image", "/embed"} :
             /\ o = "/embed" => e
             /\ req = [NoReq EXCEPT !.op = o, !.bg_w = w, !.bg_h = h, !.scale = sc,
                                    !.position = a, !.margin = m, !.data = d,
                                    !.exists = e, !.decodable = dec, !.codec = c]
       \/ \E sz \in LogoSizes, ls \in LogoScales, d \in DataSamples, e \in BOOLEAN,
             dec \in BOOLEAN, c \in {"ok", "fail"},
             o \in {"generate_qr_with_logo", "/qr/logo", "/qr/text"} :
             /\ o # "generate_qr_with_logo" => e
             /\ o = "/qr/text" => dec
             /\ req = [NoReq EXCEPT !.op = o, !.size = sz, !.logo_scale = ls, !.data = d,
                                    !.exists = e, !.decodable = dec, !.codec = c]
       \/ \E sz \in Sizes, d \in DataSamples \cup {D_big}, c \in {"ok", "fail"} :
             /\ d = D_big => c = "fail"
             /\ req = [NoReq EXCEPT !.op = "/qr", !.size = sz, !.data = d, !.codec = c]
       \/ \E d \in DataSamples, x \in {"ok", "ValueError", "Exception"},
             o \in {"/qr/artistic", "/qr/qart"} :
             req = [NoReq EXCEPT !.op = o, !.data = d, !.ext = x]
       \/ \E d \in DataSamples, x \in {"ok", "ValueError", "Exception"}, e \in BOOLEAN :
             req = [NoReq EXCEPT !.op = "generate_artistic_qr", !.data = d, !.ext = x,
                                 !.exists = e]
       \/ \E its \in ItemSeqs(1), sc \in Scales, a \in {S_bottom_right, S_Top_right, S_middle},
             d \in {D_url, D_blank}, c \in {"ok", "fail"} :
             req = [NoReq EXCEPT !.op = "/batch/embed", !.items = its, !.scale = sc,
                                 !.position = a, !.margin = 10, !.data = d, !.codec = c]
       \/ \E its \in ItemSeqs(1) :
             req = [NoReq EXCEPT !.op = "/batch/artistic", !.items = its, !.data = D_url]
       \/ \E its \in ItemSeqs(0), sc \in Scales, a \in {S_bottom_right, S_center},
             d \in {D_url, D_blank}, c \in {"ok", "fail"} :
             req = [NoReq EXCEPT !.op = "batch-embed", !.items = its, !.scale = sc,
                                 !.position = a, !.margin = 10, !.data = d, !.codec = c]

\* a call of a core function: what it raised and left
Call(o, g) ==
    /\ pc = "call"
    /\ req.op = o
    /\ exc' = g.exc
    /\ rendered' = g.rendered
    /\ placed' = g.placed
    /\ written' = g.written
    /\ pc' = "done"
    /\ UNCHANGED <<req, ret, tmp, status, body, zf, idx>>

\* a request served by a handler that answers in one piece
Serve(o, resp) ==
    /\ pc = "call"
    /\ req.op = o
    /\ status' = resp.status
    /\ body' = resp.body
    /\ exc' = resp.exc
    /\ rendered' = resp.rendered
    /\ placed' = resp.placed
    /\ tmp' = resp.tmp
    /\ pc' = "done"
    /\ UNCHANGED <<req, ret, written, zf, idx>>

EmbedQrInImage == Call("embed_qr_in_image", embed_qr_in_image(req))

GenerateQrWithLogo == Call("generate_qr_with_logo", generate_qr_with_logo(req))

GenerateArtisticQr == Call("generate_artistic_qr", generate_artistic_qr(req))

CreateQr == Serve("/qr", create_qr(req))

CreateQrWithLogo == Serve("/qr/logo", create_qr_with_logo(req))

CreateQrWithText == Serve("/qr/text", create_qr_with_text_endpoint(req))

CreateArtisticQr == Serve("/qr/artistic", create_artistic_qr(req))

CreateQart == Serve("/qr/qart", create_qart(req))

EmbedQr == Serve("/embed", embed_qr(req))

InLoop(o) == pc \in {"call", "loop"} /\ req.op = o

\* /batch/embed skipping an upload that fails and going on with the next
BatchEmbedItem_continue ==
    /\ InLoop("/batch/embed")
    /\ idx < Len(req.items)
    /\ LET file == req.items[idx + 1]
           g == batch_embed_item(file, req)
       IN /\ idx' = idx + 1
          /\ rendered' = rendered + g.rendered
          /\ placed' = placed \o g.placed
          /\ zf' = IF g.exc = "none"
                   THEN Append(zf, Entry(ArchiveName(file.name, S_qr), idx + 1))
                   ELSE zf
          /\ pc' = "loop"
          /\ UNCHANGED <<exc, status, body>>
    /\ UNCHANGED <<req, ret, written, tmp>>

\* /batch/embed: one iteration of the loop over the uploads (idx counts the
\* uploads taken up); an exception leaves the loop and the with block and is
\* answered by the except clauses
BatchEmbedItem ==
    /\ InLoop("/batch/embed")
    /\ idx < Len(req.items)
    /\ LET file == req.items[idx + 1]
           g == batch_embed_item(file, req)
       IN /\ idx' = idx + 1
          /\ rendered' = rendered + g.rendered
          /\ placed' = placed \o g.placed
          /\ IF g.exc = "none"
             THEN /\ zf' = Append(zf, Entry(ArchiveName(file.name, S_qr), idx + 1))
                  /\ pc' = "loop"
                  /\ UNCHANGED <<exc, status, body>>
             ELSE /\ exc' = g.exc
                  /\ status' = IF g.exc = "ValueError" THEN 400 ELSE 500
                  /\ body' = "none"
                  /\ pc' = "done"
                  /\ UNCHANGED zf
    /\ UNCHANGED <<req, ret, written, tmp>>

\* /batch/embed: the loop is over, the archive is returned
BatchEmbedReturn ==
    /\ InLoop("/batch/embed")
    /\ idx = Len(req.items)
    /\ status' = 200
    /\ body' = "zip"
    /\ pc' = "done"
    /\ UNCHANGED <<req, exc, ret, rendered, placed, written, tmp, zf, idx>>

\* /batch/artistic putting each new entry at the front of the archive
BatchArtisticItem_prepend ==
    /\ InLoop("/batch/artistic")
    /\ idx < Len(req.items)
    /\ LET file == req.items[idx + 1]
           files == tmp \cup Staged(idx + 1)
           g == generate_artistic_qr([req EXCEPT !.exists = TRUE, !.ext = file.ext,
                                                 !.output = S_out])
       IN /\ idx' = idx + 1
          /\ IF g.exc = "none"
             THEN /\ tmp' = files \ Staged(idx + 1)
                  /\ zf' = <<Entry(ArchiveName(file.name, S_artistic), idx + 1)>> \o zf
                  /\ pc' = "loop"
                  /\ UNCHANGED <<exc, status, body>>
             ELSE /\ tmp' = files
                  /\ exc' = g.exc
                  /\ status' = 500
                  /\ body' = "none"
                  /\ pc' = "done"
                  /\ UNCHANGED zf
    /\ UNCHANGED <<req, ret, rendered, placed, written>>

\* /batch/artistic: one iteration of the loop over the uploads
BatchArtisticItem ==
    /\ InLoop("/batch/artistic")
    /\ idx < Len(req.items)
    /\ LET file == req.items[idx + 1]
           files == tmp \cup Staged(idx + 1)
           g == generate_artistic_qr([req EXCEPT !.exists = TRUE, !.ext = file.ext,
                                                 !.output = S_out])
       IN /\ idx' = idx + 1
          /\ IF g.exc = "none"
             THEN /\ tmp' = files \ Staged(idx + 1)
                  /\ zf' = Append(zf, Entry(ArchiveName(file.name, S_artistic), idx + 1))
                  /\ pc' = "loop"
                  /\ UNCHANGED <<exc, status, body>>
             ELSE /\ tmp' = files
                  /\ exc' = g.exc
                  /\ status' = 500
                  /\ body' = "none"
                  /\ pc' = "done"
                  /\ UNCHANGED zf
    /\ UNCHANGED <<req, ret, rendered, placed, written>>

\* /batch/artistic: the loop is over, the archive is returned
BatchArtisticReturn ==
    /\ InLoop("/batch/artistic")
    /\ idx = Len(req.items)
    /\ status' = 200
    /\ body' = "zip"
    /\ pc' = "done"
    /\ UNCHANGED <<req, exc, ret, rendered, placed, written, tmp, zf, idx>>

\* batch-embed: one iteration of the loop over the files the glob matched,
\* in the order glob returned them; an exception ends the command
CliBatchEmbedItem ==
    /\ InLoop("batch-embed")
    /\ idx < Len(req.items)
    /\ LET in_path == req.items[idx + 1]
           g == embed_qr_in_image([req EXCEPT !.exists = TRUE,
                                              !.decodable = in_path.decodable,
                                              !.bg_w = in_path.bg_w, !.bg_h = in_path.bg_h,
                                              !.output = CliOutName(in_path.name)])
       IN /\ idx' = idx + 1
          /\ rendered' = rendered + g.rendered
          /\ placed' = placed \o g.placed
          /\ written' = written \cup g.written
          /\ IF g.exc = "none"
             THEN pc' = "loop" /\ UNCHANGED exc
             ELSE pc' = "done" /\ exc' = g.exc
    /\ UNCHANGED <<req, ret, tmp, status, body, zf>>

\* batch-embed: every matched file was embedded, the command ends
CliBatchEmbedReturn ==
    /\ InLoop("batch-embed")
    /\ idx = Len(req.items)
    /\ pc' = "done"
    /\ UNCHANGED <<req, exc, ret, rendered, placed, written, tmp, status, body, zf, idx>>

Next ==
    \/ EmbedQrInImage
    \/ GenerateQrWithLogo
    \/ GenerateArtisticQr
    \/ CreateQr
    \/ CreateQrWithLogo
    \/ CreateQrWithText
    \/ CreateArtisticQr
    \/ CreateQart
    \/ EmbedQr
    \/ BatchEmbedItem
    \/ BatchEmbedReturn
    \/ BatchArtisticItem
    \/ BatchArtisticReturn
    \/ CliBatchEmbedItem
    \/ CliBatchEmbedReturn

Spec == Init /\ [][Next]_vars

(***************************************************************************)
(* Properties                                                              *)
(***************************************************************************)
\* floor(n / 2), stated without \div
FloorHalf(n) == CHOOSE q \in -5000..5000 : 2 * q <= n /\ n < 2 * q + 2

\* the closed forms of the five anchors
ClosedForm(w, h, q, a, m) ==
    CASE a = S_center -> <<FloorHalf(w - q), FloorHalf(h - q)>>
      [] a = S_top_left -> <<m, m>>
      [] a = S_top_right -> <<w - q - m, m>>
      [] a = S_bottom_left -> <<m, h - q - m>>
      [] a = S_bottom_right -> <<w - q - m, h - q - m>>

Returned(op) == pc = "done" /\ req.op = op

\* C1: for each of the five anchor names calculate_position returns exactly the
\* closed form of that anchor (floor division for center, also of a negative
\* difference), and the result is not clamped to the canvas.
C1_ClosedForms ==
    (Returned("calculate_position") /\ req.position \in VALID_POSITIONS)
        => /\ exc = "none"
           /\ ret = ClosedForm(req.bg_w, req.bg_h, req.qr_size, req.position, req.margin)

\* center with a negative odd difference, and a corner placed off the canvas
C1_Witness ==
    /\ Returned("calculate_position")
    /\ \/ /\ req.position = S_center
          /\ req.bg_w - req.qr_size < 0
          /\ (req.bg_w - req.qr_size) % 2 = 1
          /\ ret[1] < 0
       \/ /\ req.position = S_bottom_right
          /\ ret[1] < 0
          /\ ret[2] < 0

\* C2: every casing variant of a valid anchor name succeeds with the coordinate
\* of the lower-case name, and every anchor whose lower-cased form is not one of
\* the five names raises ValueError, whatever the numeric arguments.
C2_CaseInsensitive ==
    Returned("calculate_position")
        => \A b \in AnchorBases, k \in Masks :
              req.position = Casing(b, k)
                 => IF b \in VALID_POSITIONS
                    THEN /\ exc = "none"
                         /\ ret = ClosedForm(req.bg_w, req.bg_h, req.qr_size, b, req.margin)
                    ELSE exc = "ValueError" /\ ret = <<>>

\* a mixed-case valid anchor that succeeded
C2_Witness ==
    /\ Returned("calculate_position")
    /\ req.position \notin VALID_POSITIONS
    /\ \E b \in VALID_POSITIONS, k \in Masks : req.position = Casing(b, k)
    /\ exc = "none"

\* an upper-cased invalid anchor that was rejected
C2_WitnessReject ==
    /\ Returned("calculate_position")
    /\ \E b \in InvalidBases, k \in Masks : k # 0 /\ req.position = Casing(b, k)
    /\ exc = "ValueError"

\* the number of non-whitespace characters of a run-length string
RECURSIVE NonWs(_)
NonWs(d) ==
    IF d = <<>> THEN 0
    ELSE (IF d[1][1] \in Whitespace THEN 0 ELSE d[1][2]) + NonWs(Tail(d))

RECURSIVE TotalLen(_, _)
TotalLen(d, i) == IF i > Len(d) THEN 0 ELSE d[i][2] + TotalLen(d, i + 1)

\* C3: validate_data raises ValueError for every string of length 0, of length
\* above 4296, or made of whitespace only, and returns normally for every other
\* string (length 1..4296 with a non-whitespace character).
C3_ValidateData ==
    Returned("validate_data")
        => (exc = "ValueError"
               <=> \/ TotalLen(req.data, 1) = 0
                   \/ TotalLen(req.data, 1) > 4296
                   \/ NonWs(req.data) = 0)
           /\ exc \in {"none", "ValueError"}

\* the longest accepted string, and a rejected whitespace-only string
C3_Witness ==
    /\ Returned("validate_data")
    /\ TotalLen(req.data, 1) = 4296
    /\ NonWs(req.data) > 0
    /\ NonWs(req.data) < 4296
    /\ exc = "none"

C3_WitnessWhitespace ==
    /\ Returned("validate_data")
    /\ TotalLen(req.data, 1) \in 1..4296
    /\ NonWs(req.data) = 0
    /\ exc = "ValueError"

\* C4: validate_size raises ValueError exactly when size < 21 or size > 4000
\* (21 and 4000 are accepted), and it renders, writes and stages nothing.
C4_ValidateSize ==
    Returned("validate_size")
        => /\ exc = (IF req.size < 21 \/ req.size > 4000 THEN "ValueError" ELSE "none")
           /\ rendered = 0 /\ placed = <<>> /\ written = {} /\ tmp = {}
           /\ status = 0 /\ body = "none" /\ zf = <<>>

\* a boundary value that was accepted
C4_Witness ==
    /\ Returned("validate_size")
    /\ req.size \in {21, 4000}
    /\ exc = "none"

\* the lower-case name of a valid position of the input sets
Canon(p) == IF p = S_Top_right THEN S_top_right ELSE p

\* q is int(w * s) for a positive scale s: q <= w * s < q + 1
IsTrunc(q, w, s) == q * s.den <= w * s.num /\ w * s.num < (q + 1) * s.den

\* the one paste of a successful embedding of a w x h background
IsEmbedding(p, w, h, r) ==
    /\ p.kind = "qr"
    /\ IsTrunc(p.size, w, r.scale)
    /\ <<p.x, p.y>> = ClosedForm(w, h, p.size, Canon(r.position), r.margin)

\* s = 0.25
IsQuarter(s) == 4 * s.num = s.den

\* C5: a successful embedding into a W x H background pastes one QR of size
\* int(W * scale), derived from the width only, at the closed-form position of
\* that size; embed_qr_in_image, /embed and /batch/embed (per upload) all do so,
\* and 400 x 300 with scale 0.25, bottom-right, margin 10 gives 100 at (290, 190).
C5_EmbedPlacement ==
    /\ (pc = "done" /\ req.op \in {"embed_qr_in_image", "/embed"} /\ exc = "none")
          => /\ Len(placed) = 1
             /\ IsEmbedding(placed[1], req.bg_w, req.bg_h, req)
             /\ (req.bg_w = 400 /\ req.bg_h = 300 /\ IsQuarter(req.scale)
                   /\ req.position = S_bottom_right /\ req.margin = 10)
                   => placed[1] = Paste("qr", 100, 290, 190)
    /\ req.op = "/batch/embed"
          => /\ Len(placed) = Len(zf)
             /\ \A i \in 1..Len(placed) :
                   /\ IsEmbedding(placed[i], req.items[i].bg_w, req.items[i].bg_h, req)
                   /\ (req.items[i].bg_w = 400 /\ req.items[i].bg_h = 300
                         /\ IsQuarter(req.scale) /\ req.position = S_bottom_right)
                         => placed[i] = Paste("qr", 100, 290, 190)

\* the scenario through the library function
C5_Witness ==
    /\ Returned("embed_qr_in_image")
    /\ req.bg_w = 400 /\ req.bg_h = 300 /\ IsQuarter(req.scale)
    /\ req.position = S_bottom_right /\ req.margin = 10
    /\ placed = <<Paste("qr", 100, 290, 190)>>

\* the scenario through /embed and as the second upload of /batch/embed
C5_WitnessHttp ==
    /\ Returned("/embed")
    /\ status = 200
    /\ placed = <<Paste("qr", 100, 290, 190)>>

C5_WitnessBatch ==
    /\ Returned("/batch/embed")
    /\ status = 200
    /\ Len(placed) = 2
    /\ placed[2] = Paste("qr", 100, 290, 190)
    /\ placed[1] # placed[2]

\* logo_scale < 0.1 or logo_scale > 0.4
LogoScaleOutOfRange(s) == 10 * s.num < s.den \/ 10 * s.num > 4 * s.den

ValidData(d) == d = D_url

ValidSize(n) == 21 <= n /\ n <= 4000

\* C6: with the logo file present, generate_qr_with_logo raises ValueError for
\* every logo_scale below 0.1 or above 0.4, whatever the other arguments, and
\* then no QR was rendered and no output file written; with valid data and size
\* it raises ValueError only then (0.1 and 0.4 are accepted).
C6_LogoScaleBounds ==
    (Returned("generate_qr_with_logo") /\ req.exists)
        => /\ LogoScaleOutOfRange(req.logo_scale)
                => /\ exc = "ValueError"
                   /\ rendered = 0
                   /\ placed = <<>>
                   /\ written = {}
           /\ (~LogoScaleOutOfRange(req.logo_scale) /\ ValidData(req.data)
                 /\ ValidSize(req.size))
                => /\ exc # "ValueError"
                   /\ (req.decodable /\ req.codec = "ok")
                         => exc = "none" /\ written = {S_out}

\* logo_scale = 0.05 rejected although data and size are valid
C6_Witness ==
    /\ Returned("generate_qr_with_logo")
    /\ req.exists
    /\ req.logo_scale = Rat(50, 1000)
    /\ ValidData(req.data) /\ ValidSize(req.size)
    /\ exc = "ValueError"
    /\ rendered = 0

\* logo_scale = 0.4 accepted
C6_WitnessAccept ==
    /\ Returned("generate_qr_with_logo")
    /\ req.logo_scale = Rat(400, 1000)
    /\ exc = "none"
    /\ written = {S_out}

StagingOps == {"/qr/logo", "/qr/text", "/qr/artistic", "/qr/qart", "/batch/artistic"}

\* C7: when a request that stages temporary files has returned, on success or
\* on any failure, none of its temporary files exists any more.
C7_TempFilesReleased ==
    (pc = "done" /\ req.op \in StagingOps) => tmp = {}

HttpOps == {"/qr", "/qr/logo", "/qr/text", "/qr/artistic", "/qr/qart", "/embed",
            "/batch/embed", "/batch/artistic"}

\* C8: a failed request is answered 400 when the failure is an input-validation
\* failure (ValueError) and 500 when it is any other failure.
C8_ErrorMapping ==
    (pc = "done" /\ req.op \in HttpOps /\ exc # "none")
        => status = (IF exc = "ValueError" THEN 400 ELSE 500)

\* the outcome of upload i of a batch request, by the operation of the request
ItemExc(i) ==
    IF req.op = "/batch/embed"
    THEN batch_embed_item(req.items[i], req).exc
    ELSE IF req.items[i].ext = "ok" THEN "none" ELSE req.items[i].ext

Failing == { i \in 1..Len(req.items) : ItemExc(i) # "none" }

FirstFailing == CHOOSE i \in Failing : \A j \in Failing : i <= j

\* C9: a batch request whose every upload succeeds returns the archive with one
\* entry per upload; one with a failing upload ends with an error status and no
\* body, and the loop took up no upload after the first failing one.
C9_BatchAllOrNothing ==
    (pc = "done" /\ req.op \in {"/batch/embed", "/batch/artistic"})
        => IF Failing = {}
           THEN /\ status = 200
                /\ body = "zip"
                /\ Len(zf) = Len(req.items)
                /\ idx = Len(req.items)
           ELSE /\ status \in {400, 500}
                /\ body = "none"
                /\ idx = FirstFailing
                /\ Len(zf) = FirstFailing - 1
                /\ \A f \in tmp : f[1] <= FirstFailing

\* a batch that failed on its second upload, a third one left untouched
C9_Witness ==
    /\ pc = "done"
    /\ req.op \in {"/batch/embed", "/batch/artistic"}
    /\ Len(req.items) >= 2
    /\ Failing # {}
    /\ FirstFailing = 2
    /\ status \in {400, 500}
    /\ body = "none"
    /\ Len(zf) = 1

BatchOps == {"/batch/embed", "/batch/artistic"}

\* C11: a batch request takes its uploads up one at a time in the order
\* received: entry i of the archive is made from upload i at every moment, each
\* step takes up exactly the next upload, and a successful request returns an
\* archive of exactly n entries for n uploads.
C11_BatchOrder ==
    req.op \in BatchOps
        => /\ Len(zf) <= idx
           /\ idx <= Len(req.items)
           /\ \A i \in 1..Len(zf) : zf[i].src = i
           /\ (pc = "loop" \/ status = 200) => Len(zf) = idx
           /\ req.op = "/batch/embed"
                 => /\ Len(placed) = Len(zf)
                    /\ \A i \in 1..Len(placed) :
                          IsTrunc(placed[i].size, req.items[i].bg_w, req.scale)
           /\ (pc = "done" /\ status = 200)
                 => /\ body = "zip"
                    /\ Len(zf) = Len(req.items)

\* a returned archive of two entries made from two different uploads
C11_Witness ==
    /\ pc = "done"
    /\ req.op \in BatchOps
    /\ status = 200
    /\ Len(req.items) = 2
    /\ req.items[1] # req.items[2]
    /\ Len(zf) = 2
    /\ zf[1].src = 1 /\ zf[2].src = 2

HasDot(n) == \E i \in 1..Len(n) : n[i] = "."

Prefixes(n) == { SubSeq(n, 1, k) : k \in 0..Len(n) }

Suffixes(n) == { SubSeq(n, k, Len(n)) : k \in 1..(Len(n) + 1) }

\* the name with the part after its last dot, and that dot, removed
Stem(n) ==
    IF ~HasDot(n) THEN n
    ELSE CHOOSE p \in Prefixes(n) :
            \E e \in Suffixes(n) : n = p \o <<".">> \o e /\ ~HasDot(e)

\* the name an upload without a file name is given
Effective(n) == IF n = <<>> THEN <<"i","m","a","g","e",".","p","n","g">> ELSE n

\* C12: the entry of an upload is named <stem>_qr.png in /batch/embed and
\* <stem>_artistic.png in /batch/artistic, the stem being the file name without
\* the part after its last dot (the whole name when it has no dot); photo.jpg
\* and photo both give photo_qr.png; an upload without a name counts as image.png.
C12_ArchiveNames ==
    /\ Returned("/batch/embed name")
          => /\ ret = Stem(Effective(req.name)) \o <<"_","q","r",".","p","n","g">>
             /\ req.name \in {N_photo_jpg, N_photo}
                   => ret = <<"p","h","o","t","o","_","q","r",".","p","n","g">>
             /\ req.name = <<>>
                   => ret = <<"i","m","a","g","e","_","q","r",".","p","n","g">>
    /\ Returned("/batch/artistic name")
          => ret = Stem(Effective(req.name))
                      \o <<"_","a","r","t","i","s","t","i","c",".","p","n","g">>

\* a name with two dots, cut at the last one
C12_Witness ==
    /\ Returned("/batch/embed name")
    /\ req.name = N_a_b_png
    /\ ret = <<"a",".","b","_","q","r",".","p","n","g">>

C12_WitnessPhoto ==
    /\ Returned("/batch/embed name")
    /\ req.name = N_photo_jpg
    /\ ret = <<"p","h","o","t","o","_","q","r",".","p","n","g">>

\* the extension os.path.splitext finds: the part from the last dot on, when a
\* character other than a dot precedes that dot; empty otherwise
ExtOf(n) ==
    IF \E e \in Suffixes(n) :
          /\ e # <<>> /\ e[1] = "." /\ ~HasDot(Tail(e))
          /\ \E j \in 1..(Len(n) - Len(e)) : n[j] # "."
    THEN CHOOSE e \in Suffixes(n) : e # <<>> /\ e[1] = "." /\ ~HasDot(Tail(e))
    ELSE <<>>

\* C13 as stated: the CLI output name of a matched input equals the name
\* /batch/embed gives to an upload of that name.
C13_CliNameEqualsHttpName ==
    Returned("batch-embed name")
        => ret = Stem(req.name) \o <<"_","q","r",".","p","n","g">>

\* C13 amended: the CLI names the output <stem>_qr<ext> with (stem, ext) as
\* os.path.splitext splits the input name, .png standing in for an empty ext;
\* this is the /batch/embed name exactly when the input name has no dot or its
\* extension is .png.
C13_CliNames ==
    Returned("batch-embed name")
        => /\ req.name = SubSeq(req.name, 1, Len(req.name) - Len(ExtOf(req.name)))
                            \o ExtOf(req.name)
           /\ ret = SubSeq(req.name, 1, Len(req.name) - Len(ExtOf(req.name)))
                       \o <<"_","q","r">>
                       \o (IF ExtOf(req.name) = <<>> THEN <<".","p","n","g">>
                           ELSE ExtOf(req.name))
           /\ (ret = Stem(req.name) \o <<"_","q","r",".","p","n","g">>)
                 <=> (~HasDot(req.name) \/ ExtOf(req.name) = <<".","p","n","g">>)

\* an input whose extension the CLI keeps and the archive does not
C13_Witness ==
    /\ Returned("batch-embed name")
    /\ req.name = N_photo_jpg
    /\ ret = <<"p","h","o","t","o","_","q","r",".","j","p","g">>

\* an input named the same by both
C13_WitnessSame ==
    /\ Returned("batch-embed name")
    /\ req.name = N_a_b_png
    /\ ret = <<"a",".","b","_","q","r",".","p","n","g">>

LibraryOps == {"embed_qr_in_image", "generate_qr_with_logo", "generate_artistic_qr"}

C14_WitnessEmbed ==
    /\ Returned("embed_qr_in_image")
    /\ ~req.exists
    /\ ~Lt(Rat(0, 1), req.scale)
    /\ req.data = D_blank
    /\ exc = "FileNotFoundError"

EmbedOps == {"embed_qr_in_image", "/embed", "/batch/embed"}

\* C15 as stated: in the embedding pipelines no QR is rendered before the call
\* or request is rejected with ValueError (a batch of one upload stands for
\* /batch/embed, so that the render counted is that of the rejected upload).
C15_ValidationBeforeRender ==
    (/\ pc = "done"
     /\ req.op \in EmbedOps
     /\ req.op = "/batch/embed" => Len(req.items) = 1
     /\ exc = "ValueError")
        => rendered = 0

LogoDone ==
    /\ pc = "done"
    /\ exc = "none"
    /\ \/ req.op = "generate_qr_with_logo"
       \/ req.op = "/qr/logo" /\ status = 200

C16_WitnessOdd ==
    /\ LogoDone
    /\ req.size = 34
    /\ placed = <<Paste("box", 33, 0, 0), Paste("logo", 13, 10, 10)>>

InUnit(s) == Lt(Rat(0, 1), s) /\ Leq(s, Rat(1, 1))

\* int(w * s) for a scale s in (0, 1]
Derived(w, s) == CHOOSE q \in 0..w : IsTrunc(q, w, s)

SingleEmbed ==
    /\ pc = "done"
    /\ \/ req.op = "embed_qr_in_image" /\ req.exists /\ req.decodable
       \/ req.op = "/embed" /\ req.decodable

\* C17: embedding into a readable background of width W at scale s raises
\* ValueError when s is outside (0, 1], and also when s is inside (0, 1] and
\* int(W * s) is below 21 or above 4000; when it succeeds the QR pasted has
\* size int(W * s) with 21 <= int(W * s) <= min(W, 4000).
C17_DerivedSizeBounds ==
    SingleEmbed
        => /\ ~InUnit(req.scale) => exc = "ValueError"
           /\ (/\ InUnit(req.scale)
               /\ \/ Derived(req.bg_w, req.scale) < 21
                  \/ Derived(req.bg_w, req.scale) > 4000)
                 => exc = "ValueError"
           /\ exc = "none"
                 => /\ InUnit(req.scale)
                    /\ Len(placed) = 1
                    /\ placed[1].size = Derived(req.bg_w, req.scale)
                    /\ 21 <= placed[1].size
                    /\ placed[1].size <= req.bg_w
                    /\ placed[1].size <= 4000

\* a scale in range whose derived size is too large, with everything else valid
C17_Witness ==
    /\ SingleEmbed
    /\ req.bg_w = 4400 /\ req.scale = Rat(2 ^ ScaleBits, 2 ^ ScaleBits)
    /\ req.data = D_url /\ req.codec = "ok" /\ req.position = S_center
    /\ exc = "ValueError"

\* a scale in range whose derived size is too small, with everything else valid
C17_WitnessSmall ==
    /\ SingleEmbed
    /\ req.bg_w = 80 /\ IsQuarter(req.scale)
    /\ req.data = D_url /\ req.codec = "ok" /\ req.position = S_center
    /\ exc = "ValueError"

\* the smallest size accepted: 84 * 0.25 = 21
C17_WitnessAccept ==
    /\ SingleEmbed
    /\ req.bg_w = 84 /\ IsQuarter(req.scale)
    /\ exc = "none"
    /\ placed[1].size = 21

\* C18 as stated: for every accepted size S and logo_scale the square painted
\* behind the logo has a top-left coordinate >= 0 and a side < S.
C18_BoxInsideSymbol ==
    LogoDone
        => /\ Len(placed) = 2
           /\ placed[1].x >= 0
           /\ placed[1].y >= 0
           /\ placed[1].size < req.size

\* C19 as stated: in the archive a batch request returns, uploads with distinct
\* file names have distinct entry names.
C19_DistinctEntryNames ==
    (pc = "done" /\ req.op \in BatchOps /\ status = 200 /\ Len(zf) = Len(req.items))
        => \A i, j \in 1..Len(zf) :
              req.items[i].name # req.items[j].name => zf[i].name # zf[j].name

====
